---- MODULE Spec2Model ----
(***************************************************************************)
(* State-machine model of the wallet / receipt / subscription engine of    *)
(* the VPN bot: WalletManager (src/wallet_manager.py), the purchase flow   *)
(* (src/bot_handler.py), the renewal flow (src/user_features.py), the      *)
(* administrative balance edit, receipt decision and subscription         *)
(* deletion (src/admin_panel.py)                                           *)
(* and the RouterOS User Manager client (src/mikrotik_manager.py).         *)
(*                                                                         *)
(* Every handler is a coroutine.  A handler invocation occupies a task     *)
(* slot; its steps are the stretches of code between two awaited database  *)
(* round trips (a SELECT, a COMMIT).  The MikroTik calls are synchronous   *)
(* and therefore part of the step in which they are made.  Each session    *)
(* works on the objects it loaded: a COMMIT writes the attribute values    *)
(* computed from what the session read.                                    *)
(*                                                                         *)
(* Money amounts are integers (the Float columns hold whole amounts in     *)
(* every run modelled); a user is identified by one id; a MikroTik user    *)
(* name is the number formed by its eight digits.                          *)
(*                                                                         *)
(* Spec is the program as main.py builds it, handling one update at a      *)
(* time.  ConcSpec lets handlers overlap.  DebitSpec and RenewSpec start   *)
(* from a state with two handlers of one user already in flight.           *)
(***************************************************************************)
EXTENDS Integers, Sequences, FiniteSets, TLC

----------------------------------------------------------------------------
(* Bounds of the model. *)

MaxReceipts == 1
MaxSubs == 1
MaxLedger == 3
MaxTicks == 1
MaxExtends == 2

(* Input domains. *)
Users == {1, 2}
Tasks == {1, 2}
ReceiptAmounts == {50}
ReceiptIds == 1..(MaxReceipts + 1)
NewBalances == {-10, 40}
SubIds == 1..MaxSubs
CreateOutcomes == {"ok", "unreachable", "profile_fail"}
DeleteOutcomes == {"ok", "unreachable", "cleanup_fail"}
TickSteps == {2678400}
NewPasswords == {2, 3}
ExtendDays == {30}
RouterOutcomes == {"ok", "unreachable"}

(* Program constants. *)
DaySeconds == 86400
UsernameDigits == 100000000
GiB == 1073741824
Epoch0 == 1700000000
PurchasePassword == 1
ConfigHost == "h1"
Hosts == {"h1", "h2"}

----------------------------------------------------------------------------
(* The Profile and Server tables (src/models.py).  Profile 1 lives on the  *)
(* server whose host is the configured default host, profile 2 on another  *)
(* server.                                                                 *)
Profiles == {1, 2}

ProfilePrice(p) == IF p = 1 THEN 20 ELSE 30

ProfileValidityDays(p) == 30

ProfileDataLimitGb(p) == 1

ProfileServer(p) == IF p = 2 THEN 2 ELSE 1

ServerHost(s) == IF s = 1 THEN "h1" ELSE "h2"

(* The rows of table profiles.  Profiles 1 and 2 are the plans bought in   *)
(* the runs modelled.  Profile 3 was added later on the server of profile  *)
(* 1 under a name that extends the name of profile 1 ("P1", "P1_v2");      *)
(* save_profile_final writes version 1 into every row.                     *)
ProfileRows == {1, 2, 3}

ProfileFamily(p) == IF p = 2 THEN "P2" ELSE "P1"

ProfileVersion(p) == 1

(* renew_subscription: the profiles whose name starts with the family name *)
(* of the stored profile, on the same server, ordered by version           *)
(* descending; the preview shows the first row, which among rows of equal  *)
(* version is any of them.                                                 *)
PreviewProfiles(p) ==
    LET cand == {q \in ProfileRows :
                    /\ ProfileFamily(q) = ProfileFamily(p)
                    /\ ProfileServer(q) = ProfileServer(p)}
    IN  {q \in cand : \A r \in cand : ProfileVersion(r) <= ProfileVersion(q)}

(* A cap stored in gigabytes. *)
CapInGigabytes(gb) == gb

(* total_limit_bytes of a plan of gb gigabytes. *)
LimitBytes(gb) == gb * GiB

----------------------------------------------------------------------------
VARIABLES
    users,      \* ids of the rows of table users
    balance,    \* users.wallet_balance
    ledger,     \* table transactions, per user, in insertion order
    receipts,   \* table payment_receipts, indexed by id
    subs,       \* table subscriptions, indexed by id
    rad,        \* per host: the User Manager accounts, by user name
    now,        \* datetime.now(), in seconds
    ticks,      \* number of clock advances so far
    tasks,      \* the handler invocations in flight
    concurrent_updates, \* the Application's setting: handlers may overlap
    conv,       \* ConversationHandler state: the customer's wallet and
                \* purchase conversations, the admin's notification one
    user_data,  \* the admin's context.user_data
    outbox,     \* the notification sent last
    settings,   \* table admin_settings: column value, by key
    written,    \* per key, the value passed to set_admin_setting last
    got         \* the last get_admin_setting call and its result

corevars == <<users, balance, ledger, receipts, subs, rad, now, ticks, tasks,
              concurrent_updates>>

uivars == <<conv, user_data, outbox, settings, written, got>>

vars == <<corevars, uivars>>

dbvars == <<users, balance, ledger, receipts, subs>>

(* Conversation states.                                                    *)
END == -1
BUY_PLAN_CONFIRM == 2
REG_NAME == 10
REG_PHONE == 11
WALLET_AMOUNT == 20
WALLET_CUSTOM == 21
WALLET_RECEIPT == 22
WALLET_CONFIRM == 23
BROADCAST_MSG == 20
TARGETED_USER_ID == 21
TARGETED_MSG == 22

(* Setting values: a type and the text Python prints for the value.        *)
Val(type, text) == [type |-> type, text |-> text]

NoValue == Val("unset", "")

SettingKeys == {"admin_secret_keyword", "wallet_presets"}

NoRow == "<no row>"

(* Before the first update: no conversation is open, nothing was sent and  *)
(* table admin_settings is empty.                                          *)
UiInit ==
    /\ conv = [wallet |-> END, buy |-> END, notify |-> END]
    /\ user_data = [has_target |-> FALSE, notify_target_id |-> 0]
    /\ outbox = [kind |-> "none", state |-> END]
    /\ settings = [k \in SettingKeys |-> NoRow]
    /\ written = [k \in SettingKeys |-> NoValue]
    /\ got = [key |-> "none", val |-> NoValue, expect |-> NoValue]

IdleTask ==
    [op |-> "idle", pc |-> "idle", u |-> 0, amt |-> 0, balRead |-> 0,
     rid |-> 0, sid |-> 0, prof |-> 0, expRead |-> 0, newExp |-> 0,
     tnow |-> 0, uname |-> 0, radOk |-> FALSE, nLedger |-> 0, nRad |-> 0,
     stRead |-> "none", shown |-> 0, radErr |-> "none", notice |-> "none",
     caller |-> 0, secret |-> 0, secretRead |-> 0, agree |-> FALSE,
     res |-> "none"]

Entry(amount, type, kind, ref) ==
    [amount |-> amount, type |-> type, kind |-> kind, ref |-> ref]

RECURSIVE SumAmounts(_)
SumAmounts(s) ==
    IF s = <<>> THEN 0 ELSE s[1].amount + SumAmounts(Tail(s))

Idle(t) == tasks[t].pc = "idle"

AllIdle == \A t \in Tasks : Idle(t)

(* A handler that has computed its result returns before anything else     *)
(* runs: there is no await between the two.                                *)
NoneDone == \A t \in Tasks : tasks[t].pc # "done"

(* Task slots are interchangeable: a new handler takes the lowest free     *)
(* one.  Unless the Application was built with concurrent_updates, it      *)
(* dispatches an update only when the handler of the previous one returned. *)
FreeSlot(t) ==
    /\ Idle(t)
    /\ \A s \in Tasks : s < t => ~Idle(s)
    /\ concurrent_updates \/ AllIdle

(* A handler that reads once and returns without writing sees the same     *)
(* database whether or not another handler is in flight; the model starts  *)
(* such a handler only when no other is in flight.                         *)
Quiet == AllIdle

RECURSIVE TotalLen(_, _)
TotalLen(f, S) ==
    IF S = {} THEN 0
    ELSE LET x == CHOOSE y \in S : TRUE
         IN  Len(f[x]) + TotalLen(f, S \ {x})

(* Tasks in flight that may still append to the ledger. *)
Writers ==
    {t \in Tasks : tasks[t].u # 0 /\ tasks[t].pc \notin {"idle", "done"}}

(* The model stops starting handlers that write the ledger once MaxLedger *)
(* rows are written or about to be.                                       *)
LedgerRoom == TotalLen(ledger, Users) + Cardinality(Writers) < MaxLedger

Buyers == {t \in Tasks : tasks[t].op = "purchase" /\ tasks[t].pc # "done"}

Done(t, result) == [tasks[t] EXCEPT !.pc = "done", !.res = result]

(* The rows of table subscriptions that have not been deleted.  A deleted  *)
(* row keeps its place in subs with live = FALSE: ids are not reused.      *)
LiveSubs == {s \in DOMAIN subs : subs[s].live}

----------------------------------------------------------------------------
Init ==
    /\ users = {}
    /\ balance = [u \in Users |-> 0]
    /\ ledger = [u \in Users |-> <<>>]
    /\ receipts = <<>>
    /\ subs = <<>>
    /\ rad = [h \in Hosts |-> <<>>]
    /\ now = Epoch0
    /\ ticks = 0
    /\ tasks = [t \in Tasks |-> IdleTask]
    /\ concurrent_updates = FALSE
    /\ UiInit

----------------------------------------------------------------------------
(* bot_handler.start: first contact creates the users row, balance 0.      *)
Start(u) ==
    /\ u \notin users
    /\ \A v \in Users : v < u => v \in users
    /\ users' = users \cup {u}
    /\ balance' = [balance EXCEPT ![u] = 0]
    /\ UNCHANGED <<ledger, receipts, subs, rad, now, ticks, tasks, concurrent_updates, uivars>>

(* bot_handler.confirm_receipt: the user submits a top-up receipt.         *)
SubmitReceipt(u, a) ==
    /\ u \in users
    /\ Len(receipts) < MaxReceipts
    /\ receipts' = Append(receipts, [user |-> u, amount |-> a, status |-> "pending"])
    /\ UNCHANGED <<users, balance, ledger, subs, rad, now, ticks, tasks, concurrent_updates, uivars>>

----------------------------------------------------------------------------
(* A deposit that adds the amount twice. *)
CreditTwice(bal, amount) == bal + amount + amount

Credited(bal, amount) == bal + amount

(* WalletManager.deposit, as called by approve_receipt.                    *)
DepositRead(t) ==
    /\ tasks[t].pc = "dp_read"
    /\ tasks' = [tasks EXCEPT ![t] =
                   IF tasks[t].u \in users
                   THEN [@ EXCEPT !.pc = "dp_commit", !.balRead = balance[tasks[t].u]]
                   ELSE Done(t, "fail")]
    /\ UNCHANGED <<dbvars, rad, now, ticks, concurrent_updates, uivars>>

DepositCommit(t) ==
    /\ tasks[t].pc = "dp_commit"
    /\ LET u == tasks[t].u
           a == tasks[t].amt
       IN  /\ balance' = [balance EXCEPT ![u] = Credited(tasks[t].balRead, a)]
           /\ ledger' = [ledger EXCEPT ![u] =
                           Append(@, Entry(a, "deposit", "Receipt", tasks[t].rid))]
    /\ tasks' = [tasks EXCEPT ![t] = [Done(t, "ok") EXCEPT !.nLedger = @ + 1]]
    /\ UNCHANGED <<users, receipts, subs, rad, now, ticks, concurrent_updates, uivars>>

(* A deduct that never refuses. *)
DeductWithoutCheck(bal, amount) == FALSE

(* A deduct that refuses to empty the wallet. *)
RefuseExactBalance(bal, amount) == bal <= amount

(* A deduct that lets the wallet go 10 below zero. *)
AllowOverdraft(bal, amount) == bal + 10 < amount

(* WalletManager.deduct refuses when the wallet holds less than the amount. *)
InsufficientFunds(bal, amount) == bal < amount

(* A deduct that debits whatever the wallet holds. *)
DeductReadUnchecked(t) ==
    /\ tasks[t].pc = "de_read"
    /\ tasks' = [tasks EXCEPT ![t] =
                   [@ EXCEPT !.pc = "de_commit", !.balRead = balance[tasks[t].u]]]
    /\ UNCHANGED <<dbvars, rad, now, ticks, concurrent_updates, uivars>>

(* WalletManager.deduct, as called by the purchase and renewal flows.      *)
DeductRead(t) ==
    /\ tasks[t].pc = "de_read"
    /\ tasks' = [tasks EXCEPT ![t] =
                   IF tasks[t].u \notin users THEN Done(t, "insufficient")
                   ELSE IF InsufficientFunds(balance[tasks[t].u], tasks[t].amt)
                        THEN Done(t, "insufficient")
                        ELSE [@ EXCEPT !.pc = "de_commit",
                                       !.balRead = balance[tasks[t].u]]]
    /\ UNCHANGED <<dbvars, rad, now, ticks, concurrent_updates, uivars>>

DeductNext(op) ==
    CASE op = "purchase" -> "pu_create"
      [] op = "renew" -> "rn_rad"
      [] OTHER -> "done"

DeductKind(op) ==
    CASE op = "purchase" -> "Purchase"
      [] op = "renew" -> "Renewal"
      [] OTHER -> "Deduct"

DeductCommit(t) ==
    /\ tasks[t].pc = "de_commit"
    /\ LET u == tasks[t].u
           a == tasks[t].amt
       IN  /\ balance' = [balance EXCEPT ![u] = tasks[t].balRead - a]
           /\ ledger' = [ledger EXCEPT ![u] =
                           Append(@, Entry(-a, "purchase",
                                           DeductKind(tasks[t].op), tasks[t].prof))]
    /\ tasks' = [tasks EXCEPT ![t] =
                   [@ EXCEPT !.pc = DeductNext(tasks[t].op),
                             !.res = IF DeductNext(tasks[t].op) = "done"
                                     THEN "ok" ELSE @,
                             !.nLedger = @ + 1]]
    /\ UNCHANGED <<users, receipts, subs, rad, now, ticks, concurrent_updates, uivars>>

----------------------------------------------------------------------------
(* The status column of receipt r as a SELECT finds it.                    *)
StatusOf(r) == IF r \in DOMAIN receipts THEN receipts[r].status ELSE "none"

(* admin_panel.handle_receipt_action -> WalletManager.approve_receipt.     *)
(* config.ADMIN_IDS and the rows of table admins. *)
ADMIN_IDS == {9}

DbAdmins == {}

is_user_admin(c) == c \in ADMIN_IDS \cup DbAdmins

(* Whoever can send the bot a callback query. *)
Callers == Users \cup ADMIN_IDS

(* handle_receipt_action with action approve, sent by caller c.            *)
ApproveBy(t, c, r) ==
    /\ FreeSlot(t)
    /\ IF r \in DOMAIN receipts /\ receipts[r].status = "pending"
       THEN /\ LedgerRoom
            /\ tasks' = [tasks EXCEPT ![t] =
                           [IdleTask EXCEPT !.op = "approve", !.pc = "ap_commit",
                                            !.caller = c,
                                            !.rid = r, !.u = receipts[r].user,
                                            !.amt = receipts[r].amount,
                                            !.stRead = receipts[r].status]]
       ELSE /\ Quiet
            /\ tasks' = [tasks EXCEPT ![t] =
                           [IdleTask EXCEPT !.op = "approve", !.pc = "done",
                                            !.caller = c,
                                            !.rid = r, !.res = "fail",
                                            !.stRead = StatusOf(r)]]
    /\ UNCHANGED <<dbvars, rad, now, ticks, concurrent_updates, uivars>>

(* The callback as an admin sends it from the pending-receipts list.       *)
BeginApprove(t, r) == \E c \in ADMIN_IDS : ApproveBy(t, c, r)

ApproveCommit(t) ==
    /\ tasks[t].pc = "ap_commit"
    /\ receipts' = [receipts EXCEPT ![tasks[t].rid].status = "approved"]
    /\ tasks' = [tasks EXCEPT ![t].pc = "dp_read"]
    /\ UNCHANGED <<users, balance, ledger, subs, rad, now, ticks, concurrent_updates, uivars>>

(* admin_panel.handle_receipt_action -> WalletManager.reject_receipt.      *)
RejectBy(t, c, r) ==
    /\ FreeSlot(t)
    /\ IF r \in DOMAIN receipts
       THEN tasks' = [tasks EXCEPT ![t] =
                        [IdleTask EXCEPT !.op = "reject", !.pc = "rj_commit",
                                         !.caller = c, !.rid = r,
                                         !.stRead = receipts[r].status]]
       ELSE /\ Quiet
            /\ tasks' = [tasks EXCEPT ![t] =
                           [IdleTask EXCEPT !.op = "reject", !.pc = "done",
                                            !.caller = c,
                                            !.rid = r, !.res = "fail"]]
    /\ UNCHANGED <<dbvars, rad, now, ticks, concurrent_updates, uivars>>

BeginReject(t, r) == \E c \in ADMIN_IDS : RejectBy(t, c, r)

(* A rejection that returns without writing the status. *)
RejectWithoutCommit(t) ==
    /\ tasks[t].pc = "rj_commit"
    /\ tasks' = [tasks EXCEPT ![t] = Done(t, "ok")]
    /\ UNCHANGED <<dbvars, rad, now, ticks, concurrent_updates, uivars>>

RejectCommit(t) ==
    /\ tasks[t].pc = "rj_commit"
    /\ receipts' = [receipts EXCEPT ![tasks[t].rid].status = "rejected"]
    /\ tasks' = [tasks EXCEPT ![t] = Done(t, "ok")]
    /\ UNCHANGED <<users, balance, ledger, subs, rad, now, ticks, concurrent_updates, uivars>>

----------------------------------------------------------------------------
(* bot_handler.process_purchase_flow, query.data = 'confirm_pay'.          *)
GenUsername(uid, ts) == ts % UsernameDigits

BeginPurchase(t, u, p) ==
    /\ FreeSlot(t)
    /\ u \in users
    /\ LedgerRoom
    /\ Len(subs) + Cardinality(Buyers) < MaxSubs
    /\ tasks' = [tasks EXCEPT ![t] =
                   [IdleTask EXCEPT !.op = "purchase", !.pc = "de_read",
                                    !.u = u, !.prof = p,
                                    !.amt = ProfilePrice(p)]]
    /\ UNCHANGED <<dbvars, rad, now, ticks, concurrent_updates, uivars>>

(* MikroTikManager.create_user on the configured default host.  outcome:   *)
(* "unreachable" (no connection, nothing written), "profile_fail" (the     *)
(* user row was added, the user-profile row was not), "ok".  RouterOS      *)
(* refuses to add a second user of the same name.                          *)
CreateUser(host, name, outcome) ==
    IF outcome = "unreachable" \/ name \in DOMAIN rad[host]
    THEN [ok |-> FALSE, rad |-> rad]
    ELSE LET acct == [disabled |-> FALSE, password |-> PurchasePassword,
                      nprof |-> IF outcome = "ok" THEN 1 ELSE 0,
                      limitBytes |-> 0]
         IN  [ok |-> outcome = "ok",
              rad |-> [rad EXCEPT ![host] =
                         [n \in DOMAIN @ \cup {name} |->
                            IF n = name THEN acct ELSE @[n]]]]

PurchaseCreate(t, outcome) ==
    /\ tasks[t].pc = "pu_create"
    /\ LET name == GenUsername(tasks[t].u, now)
           r == CreateUser(ConfigHost, name, outcome)
       IN  /\ rad' = r.rad
           /\ tasks' = [tasks EXCEPT ![t] =
                          IF r.ok
                          THEN [@ EXCEPT !.pc = "pu_insert", !.uname = name,
                                         !.nRad = 1, !.radOk = TRUE,
                                         !.tnow = now,
                                         !.newExp = now + ProfileValidityDays(tasks[t].prof) * DaySeconds]
                          ELSE [Done(t, "failed") EXCEPT
                                   !.uname = name, !.nRad = 1,
                                   !.radErr = IF outcome = "unreachable"
                                              THEN "unreachable"
                                              ELSE "rejected"]]
    /\ UNCHANGED <<dbvars, now, ticks, concurrent_updates, uivars>>

NewSubscription(t) ==
    [user |-> tasks[t].u, profile |-> tasks[t].prof,
     server |-> ProfileServer(tasks[t].prof),
     username |-> tasks[t].uname, expiry |-> tasks[t].newExp,
     total_limit_bytes |-> LimitBytes(ProfileDataLimitGb(tasks[t].prof)),
     mikrotik_password |-> PurchasePassword,
     live |-> TRUE]

PurchaseInsert(t) ==
    /\ tasks[t].pc = "pu_insert"
    /\ IF \E s \in LiveSubs : subs[s].username = tasks[t].uname
       THEN /\ tasks' = [tasks EXCEPT ![t] = Done(t, "error")]
            /\ UNCHANGED subs
       ELSE /\ subs' = Append(subs, NewSubscription(t))
            /\ tasks' = [tasks EXCEPT ![t] = [Done(t, "ok") EXCEPT !.sid = Len(subs) + 1]]
    /\ UNCHANGED <<users, balance, ledger, receipts, rad, now, ticks, concurrent_updates, uivars>>

----------------------------------------------------------------------------
(* user_features.renew_subscription shows the plan q that its query puts   *)
(* first; user_features.confirm_renewal, reached from the button of that   *)
(* preview, loads the plan stored on the subscription.                     *)
BeginRenew(t, s, q) ==
    /\ FreeSlot(t)
    /\ s \in LiveSubs
    /\ q \in PreviewProfiles(subs[s].profile)
    /\ LedgerRoom
    /\ tasks' = [tasks EXCEPT ![t] =
                   [IdleTask EXCEPT !.op = "renew", !.pc = "de_read",
                                    !.u = subs[s].user, !.sid = s,
                                    !.prof = subs[s].profile,
                                    !.shown = q,
                                    !.uname = subs[s].username,
                                    !.expRead = subs[s].expiry,
                                    !.amt = ProfilePrice(subs[s].profile)]]
    /\ UNCHANGED <<dbvars, rad, now, ticks, concurrent_updates, uivars>>

(* A renewal that always extends from the stored expiry. *)
ExtendFromOldExpiry(oldExpiry, tnow, days) == oldExpiry + days * DaySeconds

RenewedExpiry(oldExpiry, tnow, days) ==
    IF oldExpiry < tnow
    THEN tnow + days * DaySeconds
    ELSE oldExpiry + days * DaySeconds

(* The MikroTik part of confirm_renewal.  info: get_user_info answered;    *)
(* en, ext: enable_user / extend_validity went through.  ok: the account   *)
(* was found and every call made for it went through.  add_data_to_user    *)
(* looks for a limitation named like the user, which nothing creates, and  *)
(* changes nothing.                                                        *)
RenewRadCalls(host, name, wasExpired, info, en, ext) ==
    IF ~info \/ name \notin DOMAIN rad[host]
    THEN [ok |-> FALSE, rad |-> rad]
    ELSE LET a == rad[host][name]
         IN  IF wasExpired \/ a.disabled
             THEN LET extended == ext /\ a.nprof > 0
                      b == [a EXCEPT !.disabled = IF en THEN FALSE ELSE @,
                                     !.nprof = IF extended THEN @ + 1 ELSE @]
                  IN  [ok |-> en /\ extended,
                       rad |-> [rad EXCEPT ![host][name] = b]]
             ELSE [ok |-> TRUE, rad |-> rad]

(* MikroTikManager.add_data_to_user: the limitation named like the user is *)
(* raised by gb gigabytes when there is one (limitBytes 0: there is none). *)
AddDataToUser(r, host, name, gb) ==
    IF name \in DOMAIN r[host] /\ r[host][name].limitBytes > 0
    THEN [r EXCEPT ![host][name].limitBytes = @ + gb * GiB]
    ELSE r

RenewRad(t, info, en, ext) ==
    /\ tasks[t].pc = "rn_rad"
    /\ LET wasExpired == tasks[t].expRead < now
           days == ProfileValidityDays(tasks[t].prof)
           host == ServerHost(subs[tasks[t].sid].server)
           r == RenewRadCalls(host, tasks[t].uname, wasExpired, info, en, ext)
       IN  /\ rad' = IF info
                     THEN AddDataToUser(r.rad, host, tasks[t].uname,
                                        ProfileDataLimitGb(tasks[t].prof))
                     ELSE r.rad
           /\ tasks' = [tasks EXCEPT ![t] =
                          [@ EXCEPT !.pc = "rn_commit", !.tnow = now,
                                    !.newExp = RenewedExpiry(tasks[t].expRead, now, days),
                                    !.radOk = r.ok, !.nRad = 1]]
    /\ UNCHANGED <<dbvars, now, ticks, concurrent_updates, uivars>>

(* The UPDATE of a row that was deleted meanwhile raises and nothing is    *)
(* committed.                                                              *)
RenewCommit(t) ==
    /\ tasks[t].pc = "rn_commit"
    /\ IF tasks[t].sid \in LiveSubs
       THEN /\ subs' = [subs EXCEPT ![tasks[t].sid].expiry = tasks[t].newExp]
            /\ tasks' = [tasks EXCEPT ![t] = Done(t, "ok")]
       ELSE /\ UNCHANGED subs
            /\ tasks' = [tasks EXCEPT ![t] = Done(t, "error")]
    /\ UNCHANGED <<users, balance, ledger, receipts, rad, now, ticks, concurrent_updates, uivars>>

----------------------------------------------------------------------------
(* admin_panel.process_edit_balance: the admin overrides the balance of    *)
(* the owner of the subscription with the searched user name.              *)
(* An adjustment row that records the new balance instead of the delta. *)
BlindAmount(old, new) == new

AdjustmentAmount(old, new) == new - old

BeginEditBalance(t, s, nb) ==
    /\ FreeSlot(t)
    /\ s \in LiveSubs
    /\ LedgerRoom
    /\ tasks' = [tasks EXCEPT ![t] =
                   [IdleTask EXCEPT !.op = "edit", !.pc = "eb_commit",
                                    !.u = subs[s].user, !.amt = nb,
                                    !.balRead = balance[subs[s].user]]]
    /\ UNCHANGED <<dbvars, rad, now, ticks, concurrent_updates, uivars>>

EditBalanceCommit(t) ==
    /\ tasks[t].pc = "eb_commit"
    /\ LET u == tasks[t].u
           nb == tasks[t].amt
       IN  /\ balance' = [balance EXCEPT ![u] = nb]
           /\ ledger' = [ledger EXCEPT ![u] =
                           Append(@, Entry(AdjustmentAmount(tasks[t].balRead, nb),
                                           "manual_adjustment", "Adjust", 0))]
    /\ tasks' = [tasks EXCEPT ![t] = [Done(t, "ok") EXCEPT !.nLedger = @ + 1]]
    /\ UNCHANGED <<users, receipts, subs, rad, now, ticks, concurrent_updates, uivars>>

----------------------------------------------------------------------------
(* MikroTikManager.delete_user.  outcome: "unreachable" (no connection,    *)
(* nothing removed), "cleanup_fail" (the user row was removed, the removal *)
(* of its user-profile rows raised), "ok".  Removing a user that is not    *)
(* there succeeds.                                                         *)
DeleteUserKeepsAccount(host, name, outcome) == [ok |-> TRUE, rad |-> rad]

DeleteUser(host, name, outcome) ==
    IF outcome = "unreachable"
    THEN [ok |-> FALSE, rad |-> rad]
    ELSE [ok |-> outcome = "ok",
          rad |-> [rad EXCEPT ![host] =
                     [n \in DOMAIN @ \ {name} |-> @[n]]]]

(* admin_panel.process_delete_confirm with the text DELETE, for the user   *)
(* name of the subscription the admin looked up.  The router is called on  *)
(* the configured default host before the first await.                     *)
BeginDelete(t, s, outcome) ==
    /\ FreeSlot(t)
    /\ s \in LiveSubs
    /\ LET r == DeleteUser(ConfigHost, subs[s].username, outcome)
           task == [IdleTask EXCEPT !.op = "delete", !.sid = s,
                                    !.uname = subs[s].username,
                                    !.nRad = 1, !.radOk = r.ok]
       IN  /\ rad' = r.rad
           /\ tasks' = [tasks EXCEPT ![t] =
                          IF r.ok THEN [task EXCEPT !.pc = "dl_commit"]
                          ELSE [task EXCEPT !.pc = "done", !.res = "failed"]]
    /\ UNCHANGED <<dbvars, now, ticks, concurrent_updates, uivars>>

(* A deletion that also deletes the ledger rows of the owner. *)
DeleteCommitCascade(t) ==
    /\ tasks[t].pc = "dl_commit"
    /\ subs' = [s \in DOMAIN subs |->
                  IF subs[s].live /\ subs[s].username = tasks[t].uname
                  THEN [subs[s] EXCEPT !.live = FALSE]
                  ELSE subs[s]]
    /\ ledger' = [ledger EXCEPT ![subs[tasks[t].sid].user] = <<>>]
    /\ tasks' = [tasks EXCEPT ![t] = Done(t, "ok")]
    /\ UNCHANGED <<users, balance, receipts, rad, now, ticks, concurrent_updates, uivars>>

DeleteCommit(t) ==
    /\ tasks[t].pc = "dl_commit"
    /\ subs' = [s \in DOMAIN subs |->
                  IF subs[s].live /\ subs[s].username = tasks[t].uname
                  THEN [subs[s] EXCEPT !.live = FALSE]
                  ELSE subs[s]]
    /\ tasks' = [tasks EXCEPT ![t] = Done(t, "ok")]
    /\ UNCHANGED <<users, balance, ledger, receipts, rad, now, ticks, concurrent_updates, uivars>>

----------------------------------------------------------------------------
(* A notification whose failure undoes the decision. *)
NotifyOrUndo(t, delivered) ==
    /\ tasks[t].pc = "done"
    /\ tasks[t].op \in {"approve", "reject"}
    /\ tasks[t].res = "ok"
    /\ tasks[t].notice = "none"
    /\ tasks' = [tasks EXCEPT ![t].notice = IF delivered THEN "sent" ELSE "failed"]
    /\ receipts' = IF delivered THEN receipts
                   ELSE [receipts EXCEPT ![tasks[t].rid].status = "pending"]
    /\ UNCHANGED <<users, balance, ledger, subs, rad, now, ticks, concurrent_updates, uivars>>

(* admin_panel.handle_receipt_action after a decision that succeeded: the  *)
(* admin's message is edited and the user is sent the decision.  Either    *)
(* call may raise; the handler logs or lets the exception leave, and has   *)
(* no database session open.                                               *)
Notify(t, delivered) ==
    /\ tasks[t].pc = "done"
    /\ tasks[t].op \in {"approve", "reject"}
    /\ tasks[t].res = "ok"
    /\ tasks[t].notice = "none"
    /\ tasks' = [tasks EXCEPT ![t].notice = IF delivered THEN "sent" ELSE "failed"]
    /\ UNCHANGED <<dbvars, rad, now, ticks, concurrent_updates, uivars>>

(* The handler returns: its slot is free again.                            *)
Finish(t) ==
    /\ tasks[t].pc = "done"
    /\ (tasks[t].op \in {"approve", "reject"} /\ tasks[t].res = "ok")
       => tasks[t].notice # "none"
    /\ tasks' = [tasks EXCEPT ![t] = IdleTask]
    /\ UNCHANGED <<dbvars, rad, now, ticks, concurrent_updates, uivars>>

(* The process dies and restarts: every handler in flight is gone, the     *)
(* committed database and the routers keep their state.                    *)
Crash ==
    /\ \E t \in Tasks : tasks[t].pc \notin {"idle", "done"}
    /\ tasks' = [t \in Tasks |-> IdleTask]
    /\ UNCHANGED <<dbvars, rad, now, ticks, concurrent_updates, uivars>>

(* Time passes.                                                            *)
Tick(d) ==
    /\ ticks < MaxTicks
    /\ now' = now + d
    /\ ticks' = ticks + 1
    /\ UNCHANGED <<dbvars, rad, tasks, concurrent_updates, uivars>>

----------------------------------------------------------------------------
(* A handler that has computed its result returns before anything else     *)
(* runs: there is no await between the two.                                *)
Next ==
    \/ NoneDone /\ \E u \in Users : Start(u)
    \/ NoneDone /\ \E u \in Users, a \in ReceiptAmounts : SubmitReceipt(u, a)
    \/ NoneDone /\ \E t \in Tasks, r \in ReceiptIds : BeginApprove(t, r)
    \/ NoneDone /\ \E t \in Tasks : ApproveCommit(t)
    \/ NoneDone /\ \E t \in Tasks : DepositRead(t)
    \/ NoneDone /\ \E t \in Tasks : DepositCommit(t)
    \/ NoneDone /\ \E t \in Tasks, r \in ReceiptIds : BeginReject(t, r)
    \/ NoneDone /\ \E t \in Tasks : RejectCommit(t)
    \/ NoneDone /\ \E t \in Tasks, u \in Users, p \in Profiles : BeginPurchase(t, u, p)
    \/ NoneDone /\ \E t \in Tasks : DeductRead(t)
    \/ NoneDone /\ \E t \in Tasks : DeductCommit(t)
    \/ NoneDone /\ \E t \in Tasks, o \in CreateOutcomes : PurchaseCreate(t, o)
    \/ NoneDone /\ \E t \in Tasks : PurchaseInsert(t)
    \/ NoneDone /\ \E t \in Tasks, s \in SubIds, q \in ProfileRows : BeginRenew(t, s, q)
    \/ NoneDone /\ \E t \in Tasks, i, e, x \in BOOLEAN : RenewRad(t, i, e, x)
    \/ NoneDone /\ \E t \in Tasks : RenewCommit(t)
    \/ NoneDone /\ \E t \in Tasks, s \in SubIds, nb \in NewBalances : BeginEditBalance(t, s, nb)
    \/ NoneDone /\ \E t \in Tasks : EditBalanceCommit(t)
    \/ NoneDone /\ \E t \in Tasks, s \in SubIds, o \in DeleteOutcomes : BeginDelete(t, s, o)
    \/ NoneDone /\ \E t \in Tasks : DeleteCommit(t)
    \/ NoneDone /\ Crash
    \/ NoneDone /\ \E d \in TickSteps : Tick(d)
    \/ \E t \in Tasks, d \in BOOLEAN : Notify(t, d)
    \/ \E t \in Tasks : Finish(t)

(* The program as main.py builds it: updates are handled one at a time.    *)
Spec == Init /\ [][Next]_vars

----------------------------------------------------------------------------
(* A failed deposit that keeps the balance update and loses the row. *)
DepositHalfCommit(t) ==
    /\ tasks[t].pc \in {"dp_read", "dp_commit"}
    /\ balance' = [balance EXCEPT ![tasks[t].u] = @ + tasks[t].amt]
    /\ tasks' = [tasks EXCEPT ![t] = Done(t, "fail")]
    /\ UNCHANGED <<users, ledger, receipts, subs, rad, now, ticks, concurrent_updates, uivars>>

(* Database errors.  An exception raised inside WalletManager.deposit or   *)
(* WalletManager.deduct (by the SELECT or by the COMMIT) is caught there:  *)
(* the session is rolled back and the method returns False.                *)
DepositRollback(t) ==
    /\ tasks[t].pc \in {"dp_read", "dp_commit"}
    /\ tasks' = [tasks EXCEPT ![t] = Done(t, "fail")]
    /\ UNCHANGED <<dbvars, rad, now, ticks, concurrent_updates, uivars>>

DeductRollback(t) ==
    /\ tasks[t].pc \in {"de_read", "de_commit"}
    /\ tasks' = [tasks EXCEPT ![t] = Done(t, "rolled_back")]
    /\ UNCHANGED <<dbvars, rad, now, ticks, concurrent_updates, uivars>>

(* The COMMIT of the Subscription insert raises in process_purchase_flow,  *)
(* which catches nothing: the exception leaves the handler and the session *)
(* is closed without the row.                                              *)
PurchaseInsertRollback(t) ==
    /\ tasks[t].pc = "pu_insert"
    /\ tasks' = [tasks EXCEPT ![t] = Done(t, "error")]
    /\ UNCHANGED <<dbvars, rad, now, ticks, concurrent_updates, uivars>>

(* The wallet and purchase handlers with database errors.                  *)
FaultNext ==
    \/ NoneDone /\ \E u \in Users : Start(u)
    \/ NoneDone /\ \E u \in Users, a \in ReceiptAmounts : SubmitReceipt(u, a)
    \/ NoneDone /\ \E t \in Tasks, r \in ReceiptIds : BeginApprove(t, r)
    \/ NoneDone /\ \E t \in Tasks : ApproveCommit(t)
    \/ NoneDone /\ \E t \in Tasks : DepositRead(t)
    \/ NoneDone /\ \E t \in Tasks : DepositCommit(t)
    \/ NoneDone /\ \E t \in Tasks : DepositRollback(t)
    \/ NoneDone /\ \E t \in Tasks, u \in Users, p \in Profiles : BeginPurchase(t, u, p)
    \/ NoneDone /\ \E t \in Tasks : DeductRead(t)
    \/ NoneDone /\ \E t \in Tasks : DeductCommit(t)
    \/ NoneDone /\ \E t \in Tasks : DeductRollback(t)
    \/ NoneDone /\ \E t \in Tasks, o \in CreateOutcomes : PurchaseCreate(t, o)
    \/ NoneDone /\ \E t \in Tasks : PurchaseInsert(t)
    \/ NoneDone /\ \E t \in Tasks : PurchaseInsertRollback(t)
    \/ NoneDone /\ Crash
    \/ \E t \in Tasks, d \in BOOLEAN : Notify(t, d)
    \/ \E t \in Tasks : Finish(t)

FaultSpec == Init /\ [][FaultNext]_vars

----------------------------------------------------------------------------
(* The expiry of a subscription to profile 1 bought at Epoch0. *)
PurchasedExpiry == Epoch0 + ProfileValidityDays(1) * DaySeconds

(* The admin panel's edits of one user: password reset and time extension. *)
(* get_mikrotik_manager() without a server is the configured default host. *)

(* MikroTikManager.reset_password: True when the router answered and has   *)
(* a user of that name, whose password it then holds.                      *)
ResetPasswordOnRouter(host, name, new_pass, outcome) ==
    IF outcome = "unreachable" \/ name \notin DOMAIN rad[host]
    THEN [ok |-> FALSE, rad |-> rad]
    ELSE [ok |-> TRUE, rad |-> [rad EXCEPT ![host][name].password = new_pass]]

(* A reset that goes on to the local update whatever the router said. *)
ResetPasswordUnchecked(t, s, new_pass, outcome) ==
    /\ FreeSlot(t)
    /\ s \in LiveSubs
    /\ LET name == subs[s].username
           r == ResetPasswordOnRouter(ConfigHost, name, new_pass, outcome)
       IN  /\ rad' = r.rad
           /\ tasks' = [tasks EXCEPT ![t] =
                          [IdleTask EXCEPT !.op = "reset", !.pc = "rp_commit",
                                           !.sid = s, !.uname = name,
                                           !.secret = new_pass,
                                           !.secretRead = subs[s].mikrotik_password,
                                           !.agree =
                                              /\ name \in DOMAIN rad[ConfigHost]
                                              /\ rad[ConfigHost][name].password
                                                   = subs[s].mikrotik_password,
                                           !.radOk = r.ok, !.nRad = 1]]
    /\ UNCHANGED <<dbvars, now, ticks, concurrent_updates, uivars>>

(* admin_panel.process_reset_password up to its first await: the router is *)
(* called, and only on success does the handler go on to the database.     *)
ResetPassword(t, s, new_pass, outcome) ==
    /\ FreeSlot(t)
    /\ s \in LiveSubs
    /\ LET name == subs[s].username
           r == ResetPasswordOnRouter(ConfigHost, name, new_pass, outcome)
           task == [IdleTask EXCEPT !.op = "reset", !.pc = "rp_commit",
                                    !.sid = s, !.uname = name,
                                    !.secret = new_pass,
                                    !.secretRead = subs[s].mikrotik_password,
                                    !.agree =
                                       /\ name \in DOMAIN rad[ConfigHost]
                                       /\ rad[ConfigHost][name].password
                                            = subs[s].mikrotik_password,
                                    !.radOk = r.ok, !.nRad = 1]
       IN  /\ rad' = r.rad
           /\ tasks' = [tasks EXCEPT ![t] =
                          IF r.ok THEN task
                          ELSE [task EXCEPT !.pc = "done", !.res = "fail"]]
    /\ UNCHANGED <<dbvars, now, ticks, concurrent_updates, uivars>>

(* UPDATE subscriptions SET mikrotik_password WHERE mikrotik_username.     *)
ResetCommit(t) ==
    /\ tasks[t].pc = "rp_commit"
    /\ subs' = [s \in DOMAIN subs |->
                  IF subs[s].live /\ subs[s].username = tasks[t].uname
                  THEN [subs[s] EXCEPT !.mikrotik_password = tasks[t].secret]
                  ELSE subs[s]]
    /\ tasks' = [tasks EXCEPT ![t] = Done(t, "ok")]
    /\ UNCHANGED <<users, balance, ledger, receipts, rad, now, ticks,
                   concurrent_updates, uivars>>

(* admin_panel.process_extend_time: the SELECT of the subscription.        *)
BeginExtendTime(t, s, days) ==
    /\ FreeSlot(t)
    /\ s \in DOMAIN subs
    /\ subs[s].expiry < PurchasedExpiry + MaxExtends * days * DaySeconds
    /\ tasks' = [tasks EXCEPT ![t] =
                   IF s \in LiveSubs
                   THEN [IdleTask EXCEPT !.op = "extend", !.pc = "et_commit",
                                         !.sid = s, !.uname = subs[s].username,
                                         !.amt = days,
                                         !.expRead = subs[s].expiry]
                   ELSE [IdleTask EXCEPT !.op = "extend", !.pc = "done",
                                         !.sid = s, !.res = "not_found"]]
    /\ UNCHANGED <<dbvars, rad, now, ticks, concurrent_updates, uivars>>

(* sub.expiry_date += timedelta(days); commit.                             *)
ExtendCommit(t) ==
    /\ tasks[t].pc = "et_commit"
    /\ subs' = [subs EXCEPT ![tasks[t].sid].expiry =
                  tasks[t].expRead + tasks[t].amt * DaySeconds]
    /\ tasks' = [tasks EXCEPT ![t].pc = "et_rad",
                              ![t].newExp = tasks[t].expRead + tasks[t].amt * DaySeconds]
    /\ UNCHANGED <<users, balance, ledger, receipts, rad, now, ticks,
                   concurrent_updates, uivars>>

(* MikroTikManager.extend_validity: the user's profile is assigned once    *)
(* more when the router answers and the user has one.                      *)
ExtendValidity(host, name, outcome) ==
    IF outcome = "unreachable" \/ name \notin DOMAIN rad[host]
       \/ rad[host][name].nprof = 0
    THEN [ok |-> FALSE, rad |-> rad]
    ELSE [ok |-> TRUE, rad |-> [rad EXCEPT ![host][name].nprof = @ + 1]]

(* The rest of process_extend_time: extend_validity is called, its result  *)
(* is dropped and the admin is told the time was extended.                 *)
ExtendRad(t, outcome) ==
    /\ tasks[t].pc = "et_rad"
    /\ LET r == ExtendValidity(ConfigHost, tasks[t].uname, outcome)
       IN  /\ rad' = r.rad
           /\ tasks' = [tasks EXCEPT ![t] =
                          [Done(t, "ok") EXCEPT !.radOk = r.ok, !.nRad = 1]]
    /\ UNCHANGED <<dbvars, now, ticks, concurrent_updates, uivars>>

(* One user with an approved and a pending receipt and one subscription,   *)
(* whose account is on the router or was removed from it.                  *)
PanelInit ==
    /\ users = {1}
    /\ balance = [u \in Users |-> IF u = 1 THEN 30 ELSE 0]
    /\ ledger = [u \in Users |->
                   IF u = 1
                   THEN <<Entry(50, "deposit", "Receipt", 1),
                          Entry(-ProfilePrice(1), "purchase", "Purchase", 1)>>
                   ELSE <<>>]
    /\ receipts = <<[user |-> 1, amount |-> 50, status |-> "approved"],
                    [user |-> 1, amount |-> 50, status |-> "pending"]>>
    /\ subs = <<[user |-> 1, profile |-> 1, server |-> ProfileServer(1),
                 username |-> GenUsername(1, Epoch0),
                 expiry |-> PurchasedExpiry,
                 total_limit_bytes |-> LimitBytes(ProfileDataLimitGb(1)),
                 mikrotik_password |-> PurchasePassword,
                 live |-> TRUE]>>
    /\ \E present \in BOOLEAN :
          rad = [h \in Hosts |->
                   IF h = ConfigHost /\ present
                   THEN [n \in {GenUsername(1, Epoch0)} |->
                           [disabled |-> FALSE, password |-> PurchasePassword,
                            nprof |-> 1, limitBytes |-> 0]]
                   ELSE <<>>]
    /\ now = Epoch0
    /\ ticks = 0
    /\ tasks = [t \in Tasks |-> IdleTask]
    /\ concurrent_updates = FALSE
    /\ UiInit

PanelNext ==
    \/ NoneDone /\ \E t \in Tasks, c \in Callers, r \in ReceiptIds : ApproveBy(t, c, r)
    \/ NoneDone /\ \E t \in Tasks, c \in Callers, r \in ReceiptIds : RejectBy(t, c, r)
    \/ NoneDone /\ \E t \in Tasks : ApproveCommit(t)
    \/ NoneDone /\ \E t \in Tasks : DepositRead(t)
    \/ NoneDone /\ \E t \in Tasks : DepositCommit(t)
    \/ NoneDone /\ \E t \in Tasks : RejectCommit(t)
    \/ NoneDone /\ \E t \in Tasks, s \in SubIds, p \in NewPasswords,
                      o \in RouterOutcomes : ResetPassword(t, s, p, o)
    \/ NoneDone /\ \E t \in Tasks : ResetCommit(t)
    \/ NoneDone /\ \E t \in Tasks, s \in SubIds, d \in ExtendDays : BeginExtendTime(t, s, d)
    \/ NoneDone /\ \E t \in Tasks : ExtendCommit(t)
    \/ NoneDone /\ \E t \in Tasks, o \in RouterOutcomes : ExtendRad(t, o)
    \/ NoneDone /\ Crash
    \/ \E t \in Tasks, d \in BOOLEAN : Notify(t, d)
    \/ \E t \in Tasks : Finish(t)

PanelSpec == PanelInit /\ [][PanelNext]_vars

----------------------------------------------------------------------------
(* A router that never answers.  MikroTikManager calls routeros_api        *)
(* synchronously, without a timeout, from inside the coroutine of the      *)
(* handler: until the call returns, the thread of the event loop runs      *)
(* nothing else, whether or not updates are handled concurrently.          *)
RadHangs(t) ==
    /\ tasks[t].pc \in {"pu_create", "rn_rad"}
    /\ tasks' = [tasks EXCEPT ![t].pc = "hung"]
    /\ UNCHANGED <<dbvars, rad, now, ticks, concurrent_updates, uivars>>

LoopFree == \A t \in Tasks : tasks[t].pc # "hung"

(* Two users: user 1 has 50 in the wallet from receipt 1, user 2 has the   *)
(* pending receipt 2.  Handlers may overlap.                               *)
HangInit ==
    /\ users = {1, 2}
    /\ balance = [u \in Users |-> IF u = 1 THEN 50 ELSE 0]
    /\ ledger = [u \in Users |->
                   IF u = 1 THEN <<Entry(50, "deposit", "Receipt", 1)>> ELSE <<>>]
    /\ receipts = <<[user |-> 1, amount |-> 50, status |-> "approved"],
                    [user |-> 2, amount |-> 50, status |-> "pending"]>>
    /\ subs = <<>>
    /\ rad = [h \in Hosts |-> <<>>]
    /\ now = Epoch0
    /\ ticks = 0
    /\ tasks = [t \in Tasks |-> IdleTask]
    /\ concurrent_updates = TRUE
    /\ UiInit

HangNext ==
    \/ NoneDone /\ LoopFree /\ \E t \in Tasks, r \in ReceiptIds : BeginApprove(t, r)
    \/ NoneDone /\ LoopFree /\ \E t \in Tasks : ApproveCommit(t)
    \/ NoneDone /\ LoopFree /\ \E t \in Tasks : DepositRead(t)
    \/ NoneDone /\ LoopFree /\ \E t \in Tasks : DepositCommit(t)
    \/ NoneDone /\ LoopFree /\ \E t \in Tasks, u \in Users, p \in Profiles :
                                  BeginPurchase(t, u, p)
    \/ NoneDone /\ LoopFree /\ \E t \in Tasks : DeductRead(t)
    \/ NoneDone /\ LoopFree /\ \E t \in Tasks : DeductCommit(t)
    \/ NoneDone /\ LoopFree /\ \E t \in Tasks, o \in CreateOutcomes : PurchaseCreate(t, o)
    \/ NoneDone /\ LoopFree /\ \E t \in Tasks : PurchaseInsert(t)
    \/ NoneDone /\ LoopFree /\ \E t \in Tasks : RadHangs(t)
    \/ NoneDone /\ Crash
    \/ LoopFree /\ \E t \in Tasks, d \in BOOLEAN : Notify(t, d)
    \/ LoopFree /\ \E t \in Tasks : Finish(t)

HangSpec == HangInit /\ [][HangNext]_vars

(* The handlers under a scheduler that keeps dispatching updates and       *)
(* running the handlers in flight for as long as there are any.            *)
FairSpec == Init /\ [][Next]_vars /\ WF_vars(Next)

(* The same handlers invoked concurrently.                                 *)
ConcInit ==
    /\ users = {}
    /\ balance = [u \in Users |-> 0]
    /\ ledger = [u \in Users |-> <<>>]
    /\ receipts = <<>>
    /\ subs = <<>>
    /\ rad = [h \in Hosts |-> <<>>]
    /\ now = Epoch0
    /\ ticks = 0
    /\ tasks = [t \in Tasks |-> IdleTask]
    /\ concurrent_updates = TRUE
    /\ UiInit

ConcSpec == ConcInit /\ [][Next]_vars

----------------------------------------------------------------------------
(* Two purchase handlers of the same user, both about to call              *)
(* WalletManager.deduct.  The wallet was filled by one approved receipt.   *)
DebitBalances == {20, 30, 50}

PurchaseTask(u, p) ==
    [IdleTask EXCEPT !.op = "purchase", !.pc = "de_read", !.u = u, !.prof = p,
                     !.amt = ProfilePrice(p)]

DebitInit ==
    /\ users = {1}
    /\ \E b \in DebitBalances :
          /\ balance = [u \in Users |-> IF u = 1 THEN b ELSE 0]
          /\ ledger = [u \in Users |->
                         IF u = 1 THEN <<Entry(b, "deposit", "Receipt", 1)>>
                         ELSE <<>>]
          /\ receipts = <<[user |-> 1, amount |-> b, status |-> "approved"]>>
    /\ subs = <<>>
    /\ rad = [h \in Hosts |-> <<>>]
    /\ now = Epoch0
    /\ ticks = 0
    /\ \E p1, p2 \in Profiles :
          tasks = [t \in Tasks |-> PurchaseTask(1, IF t = 1 THEN p1 ELSE p2)]
    /\ concurrent_updates = TRUE
    /\ UiInit

DebitNext ==
    \/ \E t \in Tasks : DeductRead(t)
    \/ \E t \in Tasks : DeductCommit(t)
    \/ \E t \in Tasks, o \in CreateOutcomes : PurchaseCreate(t, o)
    \/ \E t \in Tasks : PurchaseInsert(t)

DebitSpec == DebitInit /\ [][DebitNext]_vars

----------------------------------------------------------------------------
(* Two renewal handlers of the same subscription, both having loaded the   *)
(* subscription and about to call WalletManager.deduct.  The wallet was    *)
(* filled by one approved receipt and paid the purchase of profile 1.      *)
RenewBalances == {30, 50}

RenewTask(s, e) ==
    [IdleTask EXCEPT !.op = "renew", !.pc = "de_read", !.u = 1, !.sid = s,
                     !.prof = 1, !.shown = 1, !.uname = GenUsername(1, Epoch0),
                     !.expRead = e, !.amt = ProfilePrice(1)]

RenewInit ==
    /\ users = {1}
    /\ \E b \in RenewBalances :
          /\ balance = [u \in Users |-> IF u = 1 THEN b ELSE 0]
          /\ ledger = [u \in Users |->
                         IF u = 1
                         THEN <<Entry(b + ProfilePrice(1), "deposit", "Receipt", 1),
                                Entry(-ProfilePrice(1), "purchase", "Purchase", 1)>>
                         ELSE <<>>]
          /\ receipts = <<[user |-> 1, amount |-> b + ProfilePrice(1),
                           status |-> "approved"]>>
    /\ subs = <<[user |-> 1, profile |-> 1, server |-> ProfileServer(1),
                 username |-> GenUsername(1, Epoch0),
                 expiry |-> PurchasedExpiry,
                 total_limit_bytes |-> LimitBytes(ProfileDataLimitGb(1)),
                 mikrotik_password |-> PurchasePassword,
                 live |-> TRUE]>>
    /\ rad = [h \in Hosts |->
                IF h = ConfigHost
                THEN [n \in {GenUsername(1, Epoch0)} |->
                        [disabled |-> FALSE, password |-> PurchasePassword,
                         nprof |-> 1, limitBytes |-> 0]]
                ELSE <<>>]
    /\ now = Epoch0
    /\ ticks = 0
    /\ tasks = [t \in Tasks |-> RenewTask(1, PurchasedExpiry)]
    /\ concurrent_updates = TRUE
    /\ UiInit

RenewNext ==
    \/ \E t \in Tasks : DeductRead(t)
    \/ \E t \in Tasks : DeductCommit(t)
    \/ \E t \in Tasks, i, e, x \in BOOLEAN : RenewRad(t, i, e, x)
    \/ \E t \in Tasks : RenewCommit(t)

RenewSpec == RenewInit /\ [][RenewNext]_vars

----------------------------------------------------------------------------
(* admin_settings: the values the handlers store.                          *)
SettingValues ==
    {Val("str", "AdminPanel"), Val("str", "123"), Val("str", ""),
     Val("list", "[5, 10]"), Val("dict", "{}")}

SettingDefaults == {Val("none", "None"), Val("str", "AdminPanel")}

(* json.loads on the texts above: the type of the document, "invalid" when *)
(* the text is not a JSON document.                                        *)
JsonType(text) ==
    CASE text = "123" -> "int"
      [] text = "[5, 10]" -> "list"
      [] text = "{}" -> "dict"
      [] OTHER -> "invalid"

(* set_admin_setting: json.dumps for a dict or a list, str() otherwise;    *)
(* either way the column holds the text alone.                             *)
ValueStr(v) == v.text

(* get_admin_setting on the text of the column.                            *)
LoadValue(text, default) ==
    IF text = NoRow \/ text = "" THEN default
    ELSE IF JsonType(text) # "invalid" THEN Val(JsonType(text), text)
    ELSE Val("str", text)

set_admin_setting(k, v) ==
    /\ settings' = [settings EXCEPT ![k] = ValueStr(v)]
    /\ written' = [written EXCEPT ![k] = v]
    /\ UNCHANGED <<corevars, conv, user_data, outbox, got>>

get_admin_setting(k, d) ==
    /\ got' = [key |-> k, val |-> LoadValue(settings[k], d), expect |-> written[k]]
    /\ UNCHANGED <<corevars, conv, user_data, outbox, settings, written>>

(* admin_settings.receive_message_value: the admin's text is stored under  *)
(* the key being edited and the admin's user_data is cleared.              *)
receive_message_value(k, v) ==
    /\ v.type = "str"
    /\ settings' = [settings EXCEPT ![k] = ValueStr(v)]
    /\ written' = [written EXCEPT ![k] = v]
    /\ user_data' = [has_target |-> FALSE, notify_target_id |-> 0]
    /\ UNCHANGED <<corevars, conv, outbox, got>>

----------------------------------------------------------------------------
(* The customer's updates: callback queries, text messages, other          *)
(* messages and commands.                                                  *)
CustomerUpdates ==
    {"cb:wallet_menu", "cb:topup_5", "cb:topup_custom", "cb:main_menu",
     "cb:receipt_yes", "cb:buy_service", "cb:buy_plan_1", "cb:confirm_pay",
     "text:Wallet", "text:Buy Service", "text:other", "photo", "contact",
     "cmd:start", "cmd:cancel"}

ConvStates ==
    {END, BUY_PLAN_CONFIRM, REG_NAME, REG_PHONE,
     WALLET_AMOUNT, WALLET_CUSTOM, WALLET_RECEIPT, WALLET_CONFIRM}

IsText(upd) == upd \in {"text:Wallet", "text:Buy Service", "text:other"}

(* bot_handler.wallet_handler: the states a callback may return when the   *)
(* handler takes update upd in state st; empty when it does not take it.   *)
wallet_handler(upd, st) ==
    IF st = END
    THEN IF upd \in {"cb:wallet_menu", "text:Wallet"} THEN {WALLET_CUSTOM} ELSE {}
    ELSE IF st = WALLET_CUSTOM /\ upd = "cb:topup_5" THEN {WALLET_RECEIPT}
    ELSE IF st = WALLET_CUSTOM /\ upd = "cb:topup_custom" THEN {WALLET_CUSTOM}
    ELSE IF st = WALLET_CUSTOM /\ upd = "cb:main_menu" THEN {END}
    ELSE IF st = WALLET_CUSTOM /\ IsText(upd) THEN {WALLET_CUSTOM, WALLET_RECEIPT}
    ELSE IF st = WALLET_RECEIPT /\ (IsText(upd) \/ upd = "photo")
         THEN {WALLET_RECEIPT, WALLET_CONFIRM}
    ELSE IF st = WALLET_RECEIPT /\ upd = "cb:wallet_menu" THEN {WALLET_CUSTOM}
    ELSE IF st = WALLET_CONFIRM /\ upd = "cb:receipt_yes" THEN {WALLET_RECEIPT, END}
    ELSE IF upd = "cmd:cancel" THEN {END}
    ELSE {}

(* bot_handler.buy_handler, likewise.                                      *)
buy_handler(upd, st) ==
    IF st = END
    THEN IF upd \in {"cb:buy_service", "text:Buy Service"}
         THEN {REG_NAME, END, BUY_PLAN_CONFIRM} ELSE {}
    ELSE IF st = BUY_PLAN_CONFIRM /\ upd = "cb:buy_plan_1" THEN {END, BUY_PLAN_CONFIRM}
    ELSE IF st = BUY_PLAN_CONFIRM /\ upd = "cb:confirm_pay" THEN {END}
    ELSE IF st = BUY_PLAN_CONFIRM /\ upd = "cb:wallet_menu" THEN {WALLET_AMOUNT}
    ELSE IF st = BUY_PLAN_CONFIRM /\ upd = "cb:buy_service"
         THEN {REG_NAME, END, BUY_PLAN_CONFIRM}
    ELSE IF st = REG_NAME /\ IsText(upd) THEN {REG_NAME, REG_PHONE}
    ELSE IF st = REG_PHONE /\ upd = "contact" THEN {REG_PHONE, BUY_PLAN_CONFIRM}
    ELSE IF upd = "cb:main_menu" THEN {END}
    ELSE {}

(* Application.process_update for an update of the customer: within group  *)
(* 0 the first handler that takes the update handles it, in the order of   *)
(* registration: CommandHandler("start"), wallet_handler, buy_handler.     *)
process_update(upd, ret) ==
    /\ IF upd = "cmd:start"
       THEN /\ ret = END
            /\ UNCHANGED conv
       ELSE IF wallet_handler(upd, conv.wallet) # {}
       THEN /\ ret \in wallet_handler(upd, conv.wallet)
            /\ conv' = [conv EXCEPT !.wallet = ret]
       ELSE IF buy_handler(upd, conv.buy) # {}
       THEN /\ ret \in buy_handler(upd, conv.buy)
            /\ conv' = [conv EXCEPT !.buy = ret]
       ELSE /\ ret = END
            /\ UNCHANGED conv
    /\ UNCHANGED <<corevars, user_data, outbox, settings, written, got>>

----------------------------------------------------------------------------
(* The admin's updates to admin_panel.admin_notification_handler.          *)
AdminUpdates ==
    {"cb:notification_menu", "cb:notify_broadcast", "cb:notify_targeted",
     "cb:admin_start", "cmd:cancel", "text:7", "text:hello"}

IsDigit(upd) == upd = "text:7"

(* process_notification: a broadcast when user_data holds no               *)
(* notify_target_id, a message to that id otherwise.                       *)
NotificationKind(st, has_target) == IF has_target THEN "single" ELSE "broadcast"

admin_notification_update(upd) ==
    /\ upd \in AdminUpdates
    /\ LET st == conv.notify
       IN  IF st = END
           THEN /\ upd \in {"cb:notification_menu", "cb:notify_broadcast",
                            "cb:notify_targeted"}
                /\ conv' = [conv EXCEPT !.notify =
                              IF upd = "cb:notify_broadcast" THEN BROADCAST_MSG
                              ELSE IF upd = "cb:notify_targeted" THEN TARGETED_USER_ID
                              ELSE END]
                /\ UNCHANGED <<user_data, outbox>>
           ELSE IF st = TARGETED_USER_ID /\ upd \in {"text:7", "text:hello"}
           THEN IF IsDigit(upd)
                THEN /\ user_data' = [has_target |-> TRUE, notify_target_id |-> 7]
                     /\ conv' = [conv EXCEPT !.notify = TARGETED_MSG]
                     /\ UNCHANGED outbox
                ELSE UNCHANGED <<conv, user_data, outbox>>
           ELSE IF st \in {BROADCAST_MSG, TARGETED_MSG} /\ upd \in {"text:7", "text:hello"}
           THEN /\ outbox' = [kind |-> NotificationKind(st, user_data.has_target),
                              state |-> st]
                /\ user_data' = [has_target |-> FALSE, notify_target_id |-> 0]
                /\ conv' = [conv EXCEPT !.notify = END]
           ELSE /\ upd \in {"cmd:cancel", "cb:admin_start"}
                /\ conv' = [conv EXCEPT !.notify = END]
                /\ UNCHANGED <<user_data, outbox>>
    /\ UNCHANGED <<corevars, settings, written, got>>

(* The conversations of one customer and one admin.                        *)
ConvNext ==
    \/ \E upd \in CustomerUpdates, ret \in ConvStates : process_update(upd, ret)
    \/ \E upd \in AdminUpdates : admin_notification_update(upd)
    \/ \E k \in SettingKeys, v \in SettingValues : receive_message_value(k, v)

ConvSpec == Init /\ [][ConvNext]_vars

(* The settings table under its readers and writers.                       *)
SettingsNext ==
    \/ \E k \in SettingKeys, v \in SettingValues : set_admin_setting(k, v)
    \/ \E k \in SettingKeys, d \in SettingDefaults : get_admin_setting(k, d)
    \/ \E k \in SettingKeys, v \in SettingValues : receive_message_value(k, v)

SettingsSpec == Init /\ [][SettingsNext]_vars

----------------------------------------------------------------------------
C3_FailedPurchaseRefunded ==
    \A t \in Tasks :
        (tasks[t].op = "purchase" /\ tasks[t].pc = "done" /\ tasks[t].res = "failed")
        => LET u == tasks[t].u
           IN  /\ balance[u] = tasks[t].balRead
               /\ \E i \in DOMAIN ledger[u] :
                     ledger[u][i].type = "refund" /\ ledger[u][i].amount = tasks[t].amt
               /\ ~ \E s \in DOMAIN subs :
                     subs[s].user = u /\ subs[s].username = tasks[t].uname

(* C4: a purchase attempted when the price exceeds the wallet balance      *)
(* leaves the balance unchanged and writes no ledger entry, creates no     *)
(* subscription and makes no backend call: neither the step that starts    *)
(* the handler nor the step that checks the funds changes anything, and    *)
(* the check ends the handler.                                             *)
C4_RefusedPurchaseChangesNothing ==
    [][\A t \in Tasks :
          /\ (tasks[t].pc = "idle" /\ tasks'[t].op = "purchase")
             => UNCHANGED <<balance, ledger, subs, rad>>
          /\ (/\ tasks[t].op = "purchase"
              /\ tasks[t].pc = "de_read"
              /\ balance[tasks[t].u] < tasks[t].amt)
             => /\ UNCHANGED <<balance, ledger, subs, rad>>
                /\ tasks'[t].pc \in {"de_read", "done", "idle"}
                /\ tasks'[t].pc = "done"
                   => /\ tasks'[t].res = "insufficient"
                      /\ tasks'[t].nLedger = 0
                      /\ tasks'[t].nRad = 0
                      /\ tasks'[t].sid = 0]_vars

C4_PurchaseRefused ==
    \E t \in Tasks :
        /\ tasks[t].op = "purchase"
        /\ tasks[t].pc = "done"
        /\ tasks[t].res = "insufficient"
        /\ balance[tasks[t].u] < tasks[t].amt
        /\ tasks[t].nLedger = 0

(* C5: whenever no handler is in flight (in particular after a crash in    *)
(* the middle of an approval), every approved receipt has its deposit      *)
(* entry of the receipt's amount in the owner's ledger.                    *)
C5_ApprovedReceiptCredited ==
    AllIdle =>
        \A r \in DOMAIN receipts :
            receipts[r].status = "approved"
            => \E i \in DOMAIN ledger[receipts[r].user] :
                  ledger[receipts[r].user][i]
                      = Entry(receipts[r].amount, "deposit", "Receipt", r)

(* C6: the status of a receipt changes only while it is pending; once it   *)
(* is approved or rejected it never changes again.                         *)
C6_ReceiptDecidedOnce ==
    [][\A r \in DOMAIN receipts :
          receipts'[r].status # receipts[r].status
          => receipts[r].status = "pending"]_vars

(* C7: an approval or rejection of a receipt that is already decided or    *)
(* does not exist returns failure, leaves the receipt as it was and writes *)
(* no ledger entry.                                                        *)
C7_DecidedReceiptRefused ==
    \A t \in Tasks :
        (/\ tasks[t].op \in {"approve", "reject"}
         /\ tasks[t].pc = "done"
         /\ tasks[t].stRead # "pending")
        => /\ tasks[t].res = "fail"
           /\ StatusOf(tasks[t].rid) = tasks[t].stRead
           /\ tasks[t].nLedger = 0

(* C8: a renewal with validity V days commits expiry now + V days when the *)
(* stored expiry is earlier than now, and stored expiry + V days otherwise. *)
C8_RenewalExpiry ==
    [][\A t \in Tasks :
          (tasks[t].op = "renew" /\ tasks[t].pc = "rn_commit" /\ tasks'[t].pc = "done")
          => LET s == tasks[t].sid
                 old == subs[s].expiry
                 v == ProfileValidityDays(subs[s].profile) * DaySeconds
                 tn == tasks[t].tnow
             IN  subs'[s].expiry = IF old < tn THEN tn + v ELSE old + v]_vars

C8_ExpiredRenewed ==
    \E t \in Tasks :
        /\ tasks[t].op = "renew"
        /\ tasks[t].pc = "done"
        /\ tasks[t].res = "ok"
        /\ tasks[t].expRead < tasks[t].tnow
        /\ subs[tasks[t].sid].expiry
              = tasks[t].tnow + ProfileValidityDays(tasks[t].prof) * DaySeconds

(* C9: a renewal during which the backend was unreachable or one of its    *)
(* calls failed ends with the renewal price refunded and the stored expiry *)
(* as it was before the renewal.                                           *)
C9_FailedRenewalRolledBack ==
    \A t \in Tasks :
        (/\ tasks[t].op = "renew"
         /\ tasks[t].pc = "done"
         /\ tasks[t].nRad = 1
         /\ ~tasks[t].radOk)
        => LET u == tasks[t].u
           IN  /\ subs[tasks[t].sid].expiry = tasks[t].expRead
               /\ balance[u] = tasks[t].balRead
               /\ \E i \in DOMAIN ledger[u] :
                     ledger[u][i].type = "refund" /\ ledger[u][i].amount = tasks[t].amt

C11_BackendDeletedFirst ==
    /\ [](\A t \in Tasks :
            (tasks[t].op = "delete" /\ tasks[t].pc = "done" /\ tasks[t].res = "failed")
            => tasks[t].sid \in LiveSubs)
    /\ [][\A s \in DOMAIN subs :
            (subs[s].live /\ ~subs'[s].live)
            => /\ \A h \in Hosts : subs[s].username \notin DOMAIN rad[h]
               /\ \E t \in Tasks :
                     /\ tasks[t].op = "delete"
                     /\ tasks[t].radOk
                     /\ tasks'[t].res = "ok"]_vars

C11_SubscriptionDeleted ==
    \E t \in Tasks :
        /\ tasks[t].op = "delete"
        /\ tasks[t].pc = "done"
        /\ tasks[t].res = "ok"
        /\ tasks[t].sid \in DOMAIN subs \ LiveSubs
        /\ tasks[t].uname \notin DOMAIN rad[ConfigHost]

(* C12: whenever no handler is in flight, every local subscription has a   *)
(* live account of its user name on the backend of its own server, and no  *)
(* backend holds an account whose subscription record has been deleted.    *)
C12_OneAccountPerSubscription ==
    AllIdle =>
        /\ \A s \in LiveSubs :
              subs[s].username \in DOMAIN rad[ServerHost(subs[s].server)]
        /\ \A s \in DOMAIN subs \ LiveSubs :
              (~ \E l \in LiveSubs : subs[l].username = subs[s].username)
              => \A h \in Hosts : subs[s].username \notin DOMAIN rad[h]

(* C13: the user name a purchase attempt is assigned was never assigned    *)
(* before: it is the name of no backend account and of no subscription     *)
(* record written by an earlier attempt.                                   *)
C13_FreshUsername ==
    [][\A t \in Tasks :
          (/\ tasks[t].op = "purchase"
           /\ tasks[t].pc = "pu_create"
           /\ tasks'[t].op = "purchase"
           /\ tasks'[t].pc # "pu_create")
          => /\ \A h \in Hosts : tasks'[t].uname \notin DOMAIN rad[h]
             /\ \A s \in DOMAIN subs : subs[s].username # tasks'[t].uname]_vars

(* C14: a purchase that reports failure leaves no backend account that the *)
(* attempt created.                                                        *)
C14_NoDanglingAccount ==
    [][\A t \in Tasks :
          (/\ tasks[t].op = "purchase"
           /\ tasks[t].pc = "pu_create"
           /\ tasks'[t].pc = "done"
           /\ tasks'[t].res = "failed")
          => \A h \in Hosts : DOMAIN rad'[h] \subseteq DOMAIN rad[h]]_vars

C17_DeductContract ==
    [][\A t \in Tasks :
          LET u == tasks[t].u
              a == tasks[t].amt
          IN  /\ (tasks[t].pc = "de_read" /\ tasks'[t].pc \notin {"de_read", "idle"})
                 => /\ UNCHANGED <<balance, ledger>>
                    /\ (tasks'[t].pc = "de_commit") <=> (u \in users /\ balance[u] >= a)
                    /\ tasks'[t].pc # "de_commit"
                       => tasks'[t].pc = "done" /\ tasks'[t].res = "insufficient"
              /\ (tasks[t].pc = "de_commit" /\ tasks'[t].pc \notin {"de_commit", "idle"})
                 => /\ balance'[u] = balance[u] - a
                    /\ Len(ledger'[u]) = Len(ledger[u]) + 1
                    /\ SubSeq(ledger'[u], 1, Len(ledger[u])) = ledger[u]
                    /\ ledger'[u][Len(ledger'[u])].amount = -a
                    /\ ledger'[u][Len(ledger'[u])].type = "purchase"]_vars

C17_ExactBalanceDebited ==
    \E t \in Tasks :
        /\ tasks[t].pc \in {"pu_create", "rn_rad"}
        /\ tasks[t].amt > 0
        /\ tasks[t].balRead = tasks[t].amt
        /\ balance[tasks[t].u] = 0
        /\ tasks[t].nLedger = 1

(* C18: approving a pending receipt of an existing user returns success,   *)
(* leaves the receipt approved, and raises that user's balance by the      *)
(* receipt's amount through exactly one deposit ledger entry.              *)
C18_ApproveCredits ==
    /\ [](\A t \in Tasks :
            (tasks[t].op = "approve" /\ tasks[t].pc = "done" /\ tasks[t].stRead = "pending")
            => LET l == ledger[tasks[t].u]
               IN  /\ tasks[t].res = "ok"
                   /\ receipts[tasks[t].rid].status = "approved"
                   /\ tasks[t].nLedger = 1
                   /\ l[Len(l)] = Entry(receipts[tasks[t].rid].amount, "deposit",
                                        "Receipt", tasks[t].rid))
    /\ [][\A t \in Tasks :
            (tasks[t].op = "approve" /\ tasks[t].pc = "dp_commit" /\ tasks'[t].pc = "done")
            => LET u == tasks[t].u
               IN  /\ balance'[u] = balance[u] + receipts[tasks[t].rid].amount
                   /\ Len(ledger'[u]) = Len(ledger[u]) + 1]_vars

C18_ReceiptApproved ==
    \E t \in Tasks :
        /\ tasks[t].op = "approve"
        /\ tasks[t].pc = "done"
        /\ tasks[t].res = "ok"
        /\ receipts[tasks[t].rid].status = "approved"
        /\ balance[tasks[t].u] = tasks[t].balRead + receipts[tasks[t].rid].amount

(* C19: rejecting a pending receipt leaves the receipt rejected and no     *)
(* step of the rejection changes any balance or any ledger.                *)
C19_RejectFrame ==
    /\ [](\A t \in Tasks :
            (tasks[t].op = "reject" /\ tasks[t].pc = "done" /\ tasks[t].stRead = "pending")
            => /\ tasks[t].res = "ok"
               /\ receipts[tasks[t].rid].status = "rejected"
               /\ tasks[t].nLedger = 0)
    /\ [][\A t \in Tasks :
            (tasks'[t].op = "reject" /\ tasks'[t] # tasks[t])
            => UNCHANGED <<balance, ledger>>]_vars

C19_ReceiptRejected ==
    \E t \in Tasks :
        /\ tasks[t].op = "reject"
        /\ tasks[t].pc = "done"
        /\ tasks[t].stRead = "pending"
        /\ receipts[tasks[t].rid].status = "rejected"

(* C20: from balance 0, approving a receipt of 50 gives balance 50; buying *)
(* the plan priced 30 with validity 30 days then gives balance 20 and a    *)
(* subscription expiring 30 days after the purchase; renewing that plan    *)
(* before expiry with balance 20 fails for insufficient funds and changes  *)
(* neither the balance nor the ledger nor the expiry.                      *)
C20_LiteralTrace ==
    /\ [](\A t \in Tasks :
            (/\ tasks[t].op = "approve" /\ tasks[t].pc = "done" /\ tasks[t].res = "ok"
             /\ tasks[t].balRead = 0 /\ tasks[t].amt = 50)
            => balance[tasks[t].u] = 50)
    /\ [](\A t \in Tasks :
            (/\ tasks[t].op = "purchase" /\ tasks[t].pc = "done" /\ tasks[t].res = "ok"
             /\ tasks[t].prof = 2 /\ tasks[t].balRead = 50)
            => /\ balance[tasks[t].u] = 20
               /\ subs[tasks[t].sid].expiry = tasks[t].tnow + 30 * DaySeconds)
    /\ [][\A t \in Tasks :
            (/\ tasks[t].op = "renew" /\ tasks[t].pc = "de_read"
             /\ tasks[t].prof = 2 /\ balance[tasks[t].u] = 20
             /\ tasks'[t].pc \notin {"de_read", "idle"})
            => /\ tasks'[t].pc = "done"
               /\ tasks'[t].res = "insufficient"
               /\ UNCHANGED <<balance, ledger, subs>>]_vars

C20_RenewalRefused ==
    \E t \in Tasks :
        /\ tasks[t].op = "renew"
        /\ tasks[t].pc = "done"
        /\ tasks[t].res = "insufficient"
        /\ tasks[t].prof = 2
        /\ tasks[t].expRead >= now
        /\ balance[tasks[t].u] = 20
        /\ ledger[tasks[t].u] = <<Entry(50, "deposit", "Receipt", 1),
                                  Entry(-30, "purchase", "Purchase", 2)>>
        /\ subs[tasks[t].sid].expiry = tasks[t].expRead
        /\ subs[tasks[t].sid].expiry = Epoch0 + 30 * DaySeconds

(* C21: in every step of deposit and deduct, with or without a database    *)
(* error, a wallet either keeps both its balance and its ledger or gains   *)
(* exactly one ledger row together with a balance change of that row's     *)
(* amount.                                                                 *)
C21_BalanceAndRowTogether ==
    [][\A u \in Users :
          \/ balance'[u] = balance[u] /\ ledger'[u] = ledger[u]
          \/ /\ Len(ledger'[u]) = Len(ledger[u]) + 1
             /\ SubSeq(ledger'[u], 1, Len(ledger[u])) = ledger[u]
             /\ balance'[u] = balance[u] + ledger'[u][Len(ledger'[u])].amount]_vars

C21_DebitRolledBack ==
    \E t \in Tasks :
        /\ tasks[t].op = "purchase"
        /\ tasks[t].pc = "done"
        /\ tasks[t].res = "rolled_back"
        /\ tasks[t].balRead >= tasks[t].amt
        /\ tasks[t].balRead > 0
        /\ balance[tasks[t].u] = tasks[t].balRead
        /\ tasks[t].nLedger = 0

(* C22: no step of any handler modifies or deletes a ledger entry: the     *)
(* ledger of every user after a step extends its ledger before the step.   *)
C22_LedgerAppendOnly ==
    [][\A u \in Users :
          /\ Len(ledger'[u]) >= Len(ledger[u])
          /\ SubSeq(ledger'[u], 1, Len(ledger[u])) = ledger[u]]_vars

C22_LedgerKeptAfterDeletion ==
    \E t \in Tasks :
        /\ tasks[t].op = "delete"
        /\ tasks[t].pc = "done"
        /\ tasks[t].res = "ok"
        /\ Len(ledger[subs[tasks[t].sid].user]) >= 2

(* C23: a renewal whose price exceeds the wallet balance changes neither   *)
(* the balance nor the ledger nor the subscription (expiry, data cap) nor  *)
(* the backend, makes no backend call, and ends with the refusal.          *)
C23_RefusedRenewalChangesNothing ==
    [][\A t \in Tasks :
          /\ (tasks[t].pc = "idle" /\ tasks'[t].op = "renew")
             => UNCHANGED <<balance, ledger, subs, rad>>
          /\ (/\ tasks[t].op = "renew"
              /\ tasks[t].pc = "de_read"
              /\ balance[tasks[t].u] < tasks[t].amt)
             => /\ UNCHANGED <<balance, ledger, subs, rad>>
                /\ tasks'[t].pc \in {"de_read", "done", "idle"}
                /\ tasks'[t].pc = "done"
                   => /\ tasks'[t].res = "insufficient"
                      /\ tasks'[t].nLedger = 0
                      /\ tasks'[t].nRad = 0]_vars

C23_RenewalRefused ==
    \E t \in Tasks :
        /\ tasks[t].op = "renew"
        /\ tasks[t].pc = "done"
        /\ tasks[t].res = "insufficient"
        /\ balance[tasks[t].u] < tasks[t].amt
        /\ subs[tasks[t].sid].expiry = tasks[t].expRead
        /\ tasks[t].nRad = 0

(* C24: the price a confirmed renewal debits and the validity it applies   *)
(* are those of the plan the renewal preview shows for the subscription,   *)
(* the latest version of its plan family on its server.                    *)
C24_RenewalUsesPreviewedPlan ==
    \A t \in Tasks :
        (tasks[t].op = "renew" /\ tasks[t].pc = "done" /\ tasks[t].res = "ok")
        => /\ tasks[t].prof = tasks[t].shown
           /\ tasks[t].amt = ProfilePrice(tasks[t].shown)
           /\ tasks[t].balRead - balance[tasks[t].u] = ProfilePrice(tasks[t].shown)
           /\ tasks[t].newExp =
                 RenewedExpiry(tasks[t].expRead, tasks[t].tnow,
                               ProfileValidityDays(tasks[t].shown))

(* C25: a successful purchase has written exactly one debit of the plan's  *)
(* price and created exactly one subscription, owned by the buyer, on the  *)
(* plan's server, expiring validity_days after the purchase, with a total  *)
(* cap of data_limit_gb times 2^30 bytes.                                  *)
C25_PurchaseResult ==
    /\ [](\A t \in Tasks :
            (tasks[t].op = "purchase" /\ tasks[t].pc = "done" /\ tasks[t].res = "ok")
            => LET u == tasks[t].u
                   p == tasks[t].prof
                   sub == subs[tasks[t].sid]
               IN  /\ tasks[t].nLedger = 1
                   /\ ledger[u][Len(ledger[u])].amount = -ProfilePrice(p)
                   /\ ledger[u][Len(ledger[u])].type = "purchase"
                   /\ balance[u] = tasks[t].balRead - ProfilePrice(p)
                   /\ sub.live
                   /\ sub.user = u
                   /\ sub.profile = p
                   /\ sub.server = ProfileServer(p)
                   /\ sub.expiry = tasks[t].tnow + ProfileValidityDays(p) * DaySeconds
                   /\ sub.total_limit_bytes = ProfileDataLimitGb(p) * 1073741824)
    /\ [][\A t \in Tasks :
            (tasks[t].op = "purchase" /\ tasks'[t].pc = "done" /\ tasks'[t].res = "ok")
            => /\ Len(subs') = Len(subs) + 1
               /\ SubSeq(subs', 1, Len(subs)) = subs]_vars

C25_PurchaseSucceeded ==
    \E t \in Tasks :
        /\ tasks[t].op = "purchase"
        /\ tasks[t].pc = "done"
        /\ tasks[t].res = "ok"
        /\ tasks[t].sid = Len(subs)
        /\ subs[tasks[t].sid].total_limit_bytes = 1073741824
        /\ balance[tasks[t].u] = tasks[t].balRead - tasks[t].amt

(* C26: after a renewal that the backend accepted, the data allowance of   *)
(* the subscription, both the limit held by the backend and the locally    *)
(* stored total cap, equals the cap of the renewing plan.                  *)
C26_AllowanceReset ==
    \A t \in Tasks :
        (tasks[t].op = "renew" /\ tasks[t].pc = "done" /\ tasks[t].res = "ok"
         /\ tasks[t].radOk)
        => LET sub == subs[tasks[t].sid]
               cap == LimitBytes(ProfileDataLimitGb(tasks[t].prof))
           IN  /\ sub.total_limit_bytes = cap
               /\ rad[ServerHost(sub.server)][sub.username].limitBytes = cap

(* C27: when the insert of the Subscription row of a purchase fails after  *)
(* the debit, the purchase ends with the balance and the ledger of the     *)
(* buyer as they were before it started.                                   *)
C27_InsertFailureUndoesDebit ==
    \A t \in Tasks :
        (tasks[t].op = "purchase" /\ tasks[t].pc = "done" /\ tasks[t].res = "error")
        => /\ balance[tasks[t].u] = tasks[t].balRead
           /\ tasks[t].nLedger = 0

(* C28: a purchase declared failed because the backend was unreachable     *)
(* has called create_user three times, and one declared failed because     *)
(* the backend rejected the request has called it once.                    *)
C28_UnreachableRetried ==
    \A t \in Tasks :
        (tasks[t].op = "purchase" /\ tasks[t].pc = "done" /\ tasks[t].res = "failed")
        => /\ tasks[t].radErr = "unreachable" => tasks[t].nRad = 3
           /\ tasks[t].radErr = "rejected" => tasks[t].nRad = 1

(* C29: whenever a purchase stands between its debit and its insert, the   *)
(* buyer eventually has as many purchase debits as subscriptions created   *)
(* plus refunds, whether the handler completes or the process restarts.    *)
C29_DebitEventuallyMatched ==
    \A u \in Users :
        (\E t \in Tasks :
            /\ tasks[t].op = "purchase"
            /\ tasks[t].u = u
            /\ tasks[t].pc \in {"pu_create", "pu_insert"})
        ~> (Cardinality({i \in DOMAIN ledger[u] : ledger[u][i].kind = "Purchase"})
            = Cardinality({s \in DOMAIN subs : subs[s].user = u})
              + Cardinality({i \in DOMAIN ledger[u] : ledger[u][i].kind = "Refund"}))

(* C30: the notification step after a receipt decision leaves the receipt, *)
(* the balances and the ledger as the decision committed them, whether the *)
(* delivery succeeds or fails.                                             *)
C30_NotificationFrame ==
    /\ [][\A t \in Tasks :
            (tasks[t].notice = "none" /\ tasks'[t].notice # "none")
            => UNCHANGED <<receipts, balance, ledger>>]_vars
    /\ [](\A t \in Tasks :
            (tasks[t].pc = "done" /\ tasks[t].notice # "none")
            => receipts[tasks[t].rid].status =
                  (IF tasks[t].op = "approve" THEN "approved" ELSE "rejected"))

C30_NoticeFailedAfterApproval ==
    \E t \in Tasks :
        /\ tasks[t].op = "approve"
        /\ tasks[t].pc = "done"
        /\ tasks[t].notice = "failed"
        /\ receipts[tasks[t].rid].status = "approved"
        /\ balance[tasks[t].u] = tasks[t].balRead + tasks[t].amt
        /\ tasks[t].nLedger = 1

C33_BackendValidityExtended ==
    [][\A t \in Tasks :
          (/\ tasks[t].op = "renew"
           /\ tasks[t].pc = "rn_rad"
           /\ tasks'[t].pc = "rn_commit"
           /\ tasks'[t].radOk)
          => LET host == ServerHost(subs[tasks[t].sid].server)
                 name == tasks[t].uname
             IN  rad'[host][name].nprof = rad[host][name].nprof + 1]_vars

(* C37: the state of the purchase conversation and of the wallet           *)
(* conversation is always END or a key of the states map of its handler.   *)
C37_StatesAreRegistered ==
    /\ conv.buy \in {END, BUY_PLAN_CONFIRM, REG_NAME, REG_PHONE}
    /\ conv.wallet \in {END, WALLET_CUSTOM, WALLET_RECEIPT, WALLET_CONFIRM}

(* C38: a message entered in state BROADCAST_MSG is sent as a broadcast.   *)
C38_BroadcastIsBroadcast ==
    outbox.state = BROADCAST_MSG => outbox.kind = "broadcast"

(* C39: get_admin_setting returns, for a key that was set to a string, a   *)
(* list or a dict, a value of the same type and content.                   *)
C39_SettingRoundTrip ==
    (got.key # "none" /\ got.expect # NoValue) => got.val = got.expect

(* C34: an administrative time extension whose backend call failed leaves  *)
(* the local expiry as it was and reports the failure.                     *)
C34_LocalFollowsBackend ==
    \A t \in Tasks :
        (tasks[t].op = "extend" /\ tasks[t].pc = "done" /\ tasks[t].nRad = 1
         /\ ~tasks[t].radOk)
        => /\ subs[tasks[t].sid].expiry = tasks[t].expRead
           /\ tasks[t].res = "fail"

(* C35: a receipt decision that went through was sent by a caller for whom *)
(* is_user_admin holds.                                                    *)
C35_OnlyAdminsDecide ==
    \A t \in Tasks :
        (tasks[t].op \in {"approve", "reject"}
         /\ tasks[t].pc = "done" /\ tasks[t].res = "ok")
        => is_user_admin(tasks[t].caller)

C31_HungBackendBlocksNothing ==
    \A t \in Tasks :
        tasks[t].pc = "hung"
        => /\ \A t2 \in Tasks \ {t} :
                 (tasks[t2].pc = "dp_read" /\ tasks[t2].u # tasks[t].u)
                 => ENABLED (NoneDone /\ LoopFree /\ DepositRead(t2))
           /\ \A r \in DOMAIN receipts :
                 (/\ receipts[r].status = "pending"
                  /\ receipts[r].user # tasks[t].u
                  /\ \E t2 \in Tasks : Idle(t2))
                 => ENABLED (NoneDone /\ LoopFree
                             /\ \E t2 \in Tasks : BeginApprove(t2, r))

====
